---- MODULE Spec2Model ----
(***************************************************************************)
(* Model of src/supply_planning.py: the two-echelon transshipment program  *)
(* (plants -> distribution centres -> stores) that builds an integer       *)
(* program from three tables, hands it to the solver, copies the variable  *)
(* values into two flow matrices and prints a report.                      *)
(*                                                                         *)
(* A table (pandas DataFrame) is a record                                  *)
(*     [label |-> BOOLEAN, rows |-> <<row, ...>>]                          *)
(* rows holds the numeric cells; label says whether a text column (the     *)
(* plant / DC / store name) sits at position 0 in front of them.  A frame  *)
(* whose name column was turned into the index (set_index, index_col=0)    *)
(* has label = FALSE: the index is not a positional column.                *)
(***************************************************************************)
EXTENDS Integers, Sequences, FiniteSets, TLC

VARIABLES
    df_inbound,     \* argument: plant -> DC cost table
    df_outbound,    \* argument: DC -> store cost table
    df_demand,      \* argument: demand table
    n_plants,       \* argument n_plants
    n_dcs,          \* argument n_dcs
    pc,             \* called, built, solved, returned, displayed or raised
    error,          \* the exception that ended the call, or "none"
    model,          \* the LpProblem: objective coefficients, right-hand sides, status
    varI,           \* I[p, d].varValue, <<>> before the variables exist
    varO,           \* O[d, s].varValue, <<>> before the variables exist
    inbound_flow,   \* result matrix, <<>> before extraction
    outbound_flow,  \* result matrix, <<>> before extraction
    reported        \* what display_results printed

vars == <<df_inbound, df_outbound, df_demand, n_plants, n_dcs, pc, error,
          model, varI, varO, inbound_flow, outbound_flow, reported>>


\* ------------------------------------------------------------------ bounds
MaxCost == 1          \* cost cells range over -1..MaxCost
MaxDemand == 1        \* demand cells range over -1..MaxDemand
MaxLots == 2          \* the solver's search covers flows of 0..MaxLots lots per arc

Costs == (0 - 1)..MaxCost
Demands == (0 - 1)..MaxDemand

\* ------------------------------------------------------------- arithmetic
RECURSIVE SumSeq(_)
SumSeq(s) == IF s = <<>> THEN 0 ELSE Head(s) + SumSeq(Tail(s))

MaxOf(S) == CHOOSE x \in S : \A y \in S : y <= x
MinOf(S) == CHOOSE x \in S : \A y \in S : x <= y

RowSum(M, r) == SumSeq(M[r])
ColSum(M, c) == SumSeq([r \in 1..Len(M) |-> M[r][c]])
Total(M) == SumSeq([r \in 1..Len(M) |-> SumSeq(M[r])])
Dot(C, M) == SumSeq([r \in 1..Len(M) |->
                 SumSeq([c \in 1..Len(M[r]) |-> C[r][c] * M[r][c]])])

\* ----------------------------------------------------------------- tables
Matrices(nrows, ncols, vals) == [1..nrows -> [1..ncols -> vals]]

Frame(label, rows) == [label |-> label, rows |-> rows]

\* number of positional columns of a frame
NCols(df) == Len(df.rows[1]) + (IF df.label THEN 1 ELSE 0)

\* df.iloc[i, k], 0-based: is the position inside the frame
InFrame(df, i, k) == i < Len(df.rows) /\ k < NCols(df)

\* df.iloc[i, k], 0-based, for a position inside the frame
Iloc(df, i, k) ==
    IF df.label
    THEN IF k = 0 THEN "name" ELSE df.rows[i + 1][k]
    ELSE df.rows[i + 1][k + 1]

\* ------------------------------------------------------------------ inputs
\* The three frames as the callers lay them out:
\*   labelled            name column kept at position 0 of every frame
\*   create_sample_data  cost frames indexed by name, demand = (STORE, DEMAND)
\*   load_data           every frame read with index_col=0
Layouts == {"labelled", "create_sample_data", "load_data"}

CostLabel(layout) == layout = "labelled"
DemandLabel(layout) == layout # "load_data"

\* Shapes of the call: the plant and DC counts passed, rows and columns of
\* the inbound table, rows and columns of the outbound table, rows of the
\* demand table.
Shape(np, nd, P, Din, Dout, Sout, L) ==
    [np |-> np, nd |-> nd, P |-> P, Din |-> Din, Dout |-> Dout, Sout |-> Sout, L |-> L]

ConsistentShapes ==
    { Shape(1, 2, 1, 2, 2, 1, 1),       \* 1 plant, 2 DCs, 1 store
      Shape(2, 1, 2, 1, 1, 2, 2),       \* 2 plants, 1 DC, 2 stores
      Shape(2, 2, 2, 2, 2, 1, 1) }      \* 2 plants, 2 DCs, 1 store

MismatchedShapes ==
    { Shape(1, 1, 1, 1, 1, 2, 1),       \* outbound has a store the demand lacks
      Shape(1, 1, 1, 1, 1, 1, 2),       \* demand has a store the outbound lacks
      Shape(1, 1, 1, 2, 1, 1, 1),       \* inbound has a DC the outbound lacks
      Shape(1, 2, 1, 2, 1, 1, 1),       \* outbound lacks a DC the inbound has
      Shape(1, 1, 1, 2, 1, 2, 1),       \* both cost tables one column too wide
      Shape(2, 1, 1, 1, 1, 1, 1),       \* two plants asked for, one supplied
      Shape(1, 1, 2, 1, 1, 1, 1) }      \* one plant asked for, two supplied

Shapes == ConsistentShapes \cup MismatchedShapes

\* The scenario of the specification: 2 plants, 2 DCs, 1 store of demand 100.
ScenarioInbound == << <<3, 5>>, <<2, 6>> >>
ScenarioOutbound == << <<1>>, <<9>> >>
ScenarioDemand == << <<100>> >>

NoModel == [cI |-> <<>>, cO |-> <<>>, rhs |-> <<>>, status |-> "NoModel"]

NoReport == [status |-> "NoReport"]

InitRest ==
    /\ pc = "called"
    /\ error = "none"
    /\ model = NoModel
    /\ varI = <<>>
    /\ varO = <<>>
    /\ inbound_flow = <<>>
    /\ outbound_flow = <<>>
    /\ reported = NoReport

InitGeneral ==
    \E sh \in Shapes, layout \in Layouts :
        /\ n_plants = sh.np
        /\ n_dcs = sh.nd
        /\ df_inbound \in { Frame(CostLabel(layout), r) :
                              r \in Matrices(sh.P, sh.Din, Costs) }
        /\ df_outbound \in { Frame(CostLabel(layout), r) :
                               r \in Matrices(sh.Dout, sh.Sout, Costs) }
        /\ df_demand \in { Frame(DemandLabel(layout), r) :
                             r \in Matrices(sh.L, 1, Demands) }
        /\ InitRest

InitScenario ==
    \E layout \in Layouts :
        /\ n_plants = 2
        /\ n_dcs = 2
        /\ df_inbound = Frame(CostLabel(layout), ScenarioInbound)
        /\ df_outbound = Frame(CostLabel(layout), ScenarioOutbound)
        /\ df_demand = Frame(DemandLabel(layout), ScenarioDemand)
        /\ InitRest

Init == InitGeneral \/ InitScenario

\* ------------------------------------------------- optimize_supply_planning
\* n_stores: len(df_demand), which is also what main passes
n_stores == Len(df_demand.rows)

\* Positions the model builder reads: the objective's cost lookups and the
\* demand lookups of the constraints.
InboundReads == { <<i, j + 1>> : i \in 0..(n_plants - 1), j \in 0..(n_dcs - 1) }
OutboundReads == { <<i, j + 1>> : i \in 0..(n_dcs - 1), j \in 0..(n_stores - 1) }
DemandReads == { <<j, 1>> : j \in 0..(n_stores - 1) }

AllInFrame(df, reads) == \A rd \in reads : InFrame(df, rd[1], rd[2])

LookupsInFrame ==
    /\ AllInFrame(df_inbound, InboundReads)
    /\ AllInFrame(df_outbound, OutboundReads)
    /\ AllInFrame(df_demand, DemandReads)

\* a sign slip in the inbound coefficient
InboundCoefNegated(i, j) == 0 - Iloc(df_inbound, i, j + 1)

\* coefficient of I[i+1, j+1] in the objective
InboundCoef(i, j) == Iloc(df_inbound, i, j + 1)

\* the outbound coefficient always read from the first DC's row
OutboundCoefFirstRow(i, j) == Iloc(df_outbound, 0, j + 1)

\* coefficient of O[i+1, j+1] in the objective
OutboundCoef(i, j) == Iloc(df_outbound, i, j + 1)

\* right-hand side of the demand constraint of store j+1
DemandRhs(j) == Iloc(df_demand, j, 1)

BuiltModel ==
    [cI |-> [p \in 1..n_plants |-> [d \in 1..n_dcs |-> InboundCoef(p - 1, d - 1)]],
     cO |-> [d \in 1..n_dcs |-> [s \in 1..n_stores |-> OutboundCoef(d - 1, s - 1)]],
     rhs |-> [s \in 1..n_stores |-> DemandRhs(s - 1)],
     status |-> "NotSolved"]

\* Lines 63-109 when every lookup succeeds.
Build ==
    /\ pc = "called"
    /\ LookupsInFrame
    /\ model' = BuiltModel
    /\ pc' = "built"
    /\ UNCHANGED <<df_inbound, df_outbound, df_demand, n_plants, n_dcs, error,
                   varI, varO, inbound_flow, outbound_flow, reported>>

\* Lines 63-109 when a positional lookup falls outside its frame.
BuildRaises ==
    /\ pc = "called"
    /\ ~LookupsInFrame
    /\ error' = "IndexError"
    /\ pc' = "raised"
    /\ UNCHANGED <<df_inbound, df_outbound, df_demand, n_plants, n_dcs, model,
                   varI, varO, inbound_flow, outbound_flow, reported>>

\* ------------------------------------------------------------ model.solve()
\* The solver searches non-negative integer flows.  The search is enumerated
\* on a grid of 0..MaxLots lots per outbound arc; a lot is one unit unless a
\* demand exceeds MaxDemand, and then the largest demand.
Lot(rhs) ==
    IF \E s \in 1..Len(rhs) : rhs[s] > MaxDemand
    THEN MaxOf({ rhs[s] : s \in 1..Len(rhs) })
    ELSE 1

Grid(lot) == { k * lot : k \in 0..MaxLots }

\* the demand constraint written with <= and with >
DemandMetReversed(O, rhs) == \A s \in 1..Len(rhs) : ColSum(O, s) <= rhs[s]
DemandMetStrict(O, rhs) == \A s \in 1..Len(rhs) : ColSum(O, s) > rhs[s]

\* constraint 1: lpSum(O[i+1, j+1] over DCs) >= demand of store j+1
DemandMet(O, rhs) == \A s \in 1..Len(rhs) : ColSum(O, s) >= rhs[s]

\* the conservation sum stopping one store short (range(n_stores - 1))
DcOutboundShort(O, d) == SumSeq(SubSeq(O[d], 1, Len(O[d]) - 1))

\* right-hand side of constraint 2 for a DC: lpSum(O[dc+1, j+1] over stores)
DcOutbound(O, d) == RowSum(O, d)

\* sequences of n grid values that add up to t
RECURSIVE Splits(_, _, _)
Splits(n, t, lot) ==
    IF n = 0
    THEN IF t = 0 THEN { <<>> } ELSE {}
    ELSE UNION { { <<a>> \o v : v \in Splits(n - 1, t - a, lot) } :
                 a \in { k * lot : k \in 0..(t \div lot) } }

\* inbound matrices whose columns each add up to the outbound of some DC
InboundCandidates(np, O, lot) ==
    { [p \in 1..np |-> [d \in 1..Len(O) |-> col[d][p]]] :
        col \in [1..Len(O) -> UNION { Splits(np, DcOutbound(O, d), lot) :
                                        d \in 1..Len(O) }] }

\* constraint 2: lpSum(I[i+1, dc+1] over plants) == lpSum(O[dc+1, j+1] over stores)
Conserved(I, O) == \A d \in 1..Len(O) : ColSum(I, d) = DcOutbound(O, d)

\* flow assignments (lowBound=0, cat="Integer") that satisfy every constraint
Feasible(m, lot) ==
    UNION { { [I |-> I, O |-> O] : I \in { X \in InboundCandidates(Len(m.cI), O, lot) :
                                          Conserved(X, O) } } :
            O \in { X \in Matrices(Len(m.cO), Len(m.rhs), Grid(lot)) :
                      DemandMet(X, m.rhs) } }

\* the objective: inbound_cost + outbound_cost
Objective(m, a) == Dot(m.cI, a.I) + Dot(m.cO, a.O)

HasNegativeCoef(m) ==
    \/ \E r \in 1..Len(m.cI), c \in 1..Len(m.cO) : m.cI[r][c] < 0
    \/ \E r \in 1..Len(m.cO), c \in 1..Len(m.rhs) : m.cO[r][c] < 0

\* flows that can be added to any feasible assignment without leaving the
\* feasible set (the recession directions); only a negative coefficient can
\* make one of them lower the objective
Directions(m) ==
    IF HasNegativeCoef(m)
    THEN Feasible([m EXCEPT !.rhs = [s \in 1..Len(m.rhs) |-> 0]], 1)
    ELSE {}

\* status of the solve, F being the feasible set (no capacity bounds the
\* flows, so F is never empty here)
SolverStatus(m, F) ==
    IF F = {} THEN "Infeasible"
    ELSE IF \E r \in Directions(m) : Objective(m, r) < 0 THEN "Unbounded"
    ELSE "Optimal"

\* the least objective value over the feasible set F
Best(m, F) == MinOf({ Objective(m, a) : a \in F })

\* the minimum-cost members of the feasible set F
Optima(m, F, best) == { a \in F : Objective(m, a) = best }

\* varValue of a variable: <<>> while unset (None), <<v>> once the solver set it
Filled(nrows, ncols, v) == [r \in 1..nrows |-> [c \in 1..ncols |-> v]]
Assigned(M) == [r \in 1..Len(M) |-> [c \in 1..Len(M[r]) |-> <<M[r][c]>>]]

\* Line 112.  An Optimal solve leaves a minimum-cost feasible assignment in
\* the variables.  After any other status the variables are either still
\* unset or hold the solver's default fill of zeros.
Solve ==
    /\ pc = "built"
    /\ \E F \in { Feasible(model, Lot(model.rhs)) } :
       \E st \in { SolverStatus(model, F) } :
          /\ model' = [model EXCEPT !.status = st]
          /\ IF st = "Optimal"
             THEN \E best \in { Best(model, F) } :
                  \E a \in Optima(model, F, best) :
                      varI' = Assigned(a.I) /\ varO' = Assigned(a.O)
             ELSE \E fill \in { <<>>, <<0>> } :
                      /\ varI' = Filled(n_plants, n_dcs, fill)
                      /\ varO' = Filled(n_dcs, n_stores, fill)
    /\ pc' = "solved"
    /\ UNCHANGED <<df_inbound, df_outbound, df_demand, n_plants, n_dcs,
                   error, inbound_flow, outbound_flow, reported>>

\* x.varValue or 0
OrZero(x) == IF x = <<>> THEN 0 ELSE x[1]

\* Lines 114-126: the values are copied whatever the status is.
Extract ==
    /\ pc = "solved"
    /\ inbound_flow' = [p \in 1..n_plants |-> [d \in 1..n_dcs |-> OrZero(varI[p][d])]]
    /\ outbound_flow' = [d \in 1..n_dcs |-> [s \in 1..n_stores |-> OrZero(varO[d][s])]]
    /\ pc' = "returned"
    /\ UNCHANGED <<df_inbound, df_outbound, df_demand, n_plants, n_dcs,
                   error, model, varI, varO, reported>>

\* ---------------------------------------------------------- display_results
SomeUnset(V) == \E r \in 1..Len(V) : \E c \in 1..Len(V[r]) : V[r][c] = <<>>

Values(V) == [r \in 1..Len(V) |-> [c \in 1..Len(V[r]) |-> V[r][c][1]]]

\* value(model.objective): None as soon as one variable is unset
ObjectiveUnset == SomeUnset(varI) \/ SomeUnset(varO)
ObjectiveValue == Objective(model, [I |-> Values(varI), O |-> Values(varO)])

\* (outbound_flow[i, :] > 0).sum()
StoresServed(O, d) == Cardinality({ s \in 1..Len(O[d]) : O[d][s] > 0 })

\* df_demand.iloc[:, 1].sum()
TotalDemand == SumSeq([j \in 1..n_stores |-> Iloc(df_demand, j - 1, 1)])

\* total_shipped / total_demand * 100 on numpy numbers: a zero demand gives
\* nan or inf (a warning, no exception); otherwise the exact ratio is kept
\* as <<numerator, denominator>>, before the one-decimal formatting
FillRate(shipped, wanted) ==
    IF wanted = 0
    THEN IF shipped = 0 THEN "nan" ELSE "inf"
    ELSE <<shipped * 100, wanted>>

\* Lines 129-166 when the objective has a value.
Display ==
    /\ pc = "returned"
    /\ ~ObjectiveUnset
    /\ reported' =
         [status |-> model.status,
          cost |-> ObjectiveValue,
          inbound |-> inbound_flow,
          throughput |-> [d \in 1..n_dcs |-> ColSum(inbound_flow, d)],
          shipped |-> [d \in 1..n_dcs |-> RowSum(outbound_flow, d)],
          served |-> [d \in 1..n_dcs |-> StoresServed(outbound_flow, d)],
          total_demand |-> TotalDemand,
          total_shipped |-> Total(outbound_flow),
          fill_rate |-> FillRate(Total(outbound_flow), TotalDemand)]
    /\ pc' = "displayed"
    /\ UNCHANGED <<df_inbound, df_outbound, df_demand, n_plants, n_dcs,
                   error, model, varI, varO, inbound_flow, outbound_flow>>

\* Lines 135-136 when value(model.objective) is None: the status line is
\* printed and the cost format raises.
DisplayRaises ==
    /\ pc = "returned"
    /\ ObjectiveUnset
    /\ reported' = [status |-> model.status]
    /\ error' = "TypeError"
    /\ pc' = "raised"
    /\ UNCHANGED <<df_inbound, df_outbound, df_demand, n_plants, n_dcs,
                   model, varI, varO, inbound_flow, outbound_flow>>

Next == Build \/ BuildRaises \/ Solve \/ Extract \/ Display \/ DisplayRaises

Spec == Init /\ [][Next]_vars

\* ===================================================================== claims
\* The network the three tables describe, read by plant / DC / store rather
\* than by position.
inboundCost == df_inbound.rows
outboundCost == df_outbound.rows
demand == [s \in 1..Len(df_demand.rows) |-> df_demand.rows[s][1]]

NonNegative(M) == \A r \in 1..Len(M) : \A c \in 1..Len(M[r]) : M[r][c] >= 0
Positive(M) == \A r \in 1..Len(M) : \A c \in 1..Len(M[r]) : M[r][c] > 0
AllZero(M) == \A r \in 1..Len(M) : \A c \in 1..Len(M[r]) : M[r][c] = 0

\* the tables agree with each other and with the counts of the call
DimensionsAgree ==
    /\ Len(inboundCost) = n_plants
    /\ Len(inboundCost[1]) = n_dcs
    /\ Len(outboundCost) = n_dcs
    /\ Len(outboundCost[1]) = Len(demand)

HasNegativeEntry ==
    ~(NonNegative(inboundCost) /\ NonNegative(outboundCost) /\ NonNegative(df_demand.rows))

ValidNetwork == DimensionsAgree /\ ~HasNegativeEntry

ModelBuilt == model.status # "NoModel"
SolverInvoked == model.status \notin {"NoModel", "NotSolved"}
Extracted == inbound_flow # <<>>
OptimalFlows == model.status = "Optimal" /\ Extracted

\* cost of a flow assignment at the network's own costs
TrueCost(I, O) == Dot(inboundCost, I) + Dot(outboundCost, O)

IsScenario ==
    /\ inboundCost = ScenarioInbound
    /\ outboundCost = ScenarioOutbound
    /\ df_demand.rows = ScenarioDemand

\* C1: for a valid network, in every flow assignment returned with status
\* Optimal, the inbound flow into each DC equals the outbound flow out of it,
\* and the throughput display_results derives from the inbound columns equals
\* the shipped total it derives from the outbound rows.
C1_Conservation ==
    (ValidNetwork /\ OptimalFlows) =>
        /\ \A d \in 1..n_dcs : ColSum(inbound_flow, d) = RowSum(outbound_flow, d)
        /\ pc = "displayed" => reported.throughput = reported.shipped

C1_Witness ==
    /\ ValidNetwork /\ OptimalFlows /\ pc = "displayed"
    /\ n_plants = 2 /\ n_dcs = 2
    /\ inbound_flow[1][1] > 0 /\ inbound_flow[2][1] > 0
    /\ RowSum(outbound_flow, 2) > 0

\* C2: for a valid network, in every flow assignment returned with status
\* Optimal, every store receives at least its demand.
C2_DemandMet ==
    (ValidNetwork /\ OptimalFlows) =>
        \A s \in 1..Len(demand) : ColSum(outbound_flow, s) >= demand[s]

C2_Witness ==
    /\ ValidNetwork /\ OptimalFlows
    /\ Len(demand) = 2 /\ demand[1] > 0 /\ demand[2] > 0
    /\ ColSum(outbound_flow, 1) > demand[1]

\* C3: for a valid network solved to Optimal, the objective value is the
\* minimum of the network's cost over all non-negative integer flow
\* assignments that meet every store's demand and conserve flow at every DC;
\* in the scenario of 2 plants, 2 DCs and one store of demand 100 all 100
\* units go through DC1 and the objective is 300.
RefGrid(k) == { n * Lot(demand) : n \in 0..(MaxLots * k) }
RefInbound == Matrices(n_plants, n_dcs, RefGrid(Len(demand)))
RefOutbound == Matrices(n_dcs, Len(demand), RefGrid(1))

RefDemandMet(O) == \A s \in 1..Len(demand) : ColSum(O, s) >= demand[s]
RefConserved(I, O) == \A d \in 1..n_dcs : ColSum(I, d) = RowSum(O, d)

C3_Minimum ==
    (ValidNetwork /\ pc = "displayed" /\ model.status = "Optimal") =>
        /\ reported.cost = TrueCost(inbound_flow, outbound_flow)
        /\ RefDemandMet(outbound_flow)
        /\ RefConserved(inbound_flow, outbound_flow)
        /\ \A O \in RefOutbound : RefDemandMet(O) =>
               \A I \in RefInbound : RefConserved(I, O) =>
                   TrueCost(I, O) >= reported.cost
        /\ IsScenario =>
               /\ outbound_flow = << <<100>>, <<0>> >>
               /\ ColSum(inbound_flow, 1) = 100
               /\ ColSum(inbound_flow, 2) = 0
               /\ reported.cost = 300

C3_Witness ==
    /\ ValidNetwork /\ IsScenario /\ pc = "displayed"
    /\ model.status = "Optimal" /\ reported.cost = 300

\* C4: for a valid network the builder's positional lookups never fall
\* outside a table and select inboundCost[p][d] for I[p][d] and
\* outboundCost[d][s] for O[d][s], so that the reported objective equals the
\* cost recomputed from the flow matrices; this includes tables laid out as
\* create_sample_data lays them out.
C4_Lookups ==
    ValidNetwork =>
        /\ error # "IndexError"
        /\ ModelBuilt => model.cI = inboundCost /\ model.cO = outboundCost
        /\ (pc = "displayed" /\ model.status = "Optimal") =>
               reported.cost = TrueCost(inbound_flow, outbound_flow)

\* C5: when every cost is strictly positive, no Optimal flow assignment ships
\* more in total than the stores demand in total (any demand is satisfiable:
\* the flows are unbounded above).
C5_NoSurplus ==
    (DimensionsAgree /\ Positive(inboundCost) /\ Positive(outboundCost) /\ OptimalFlows) =>
        Total(outbound_flow) <= SumSeq(demand)

\* C5 on valid networks (non-negative demand), where it holds.
C5_ValidNetworks ==
    (ValidNetwork /\ Positive(inboundCost) /\ Positive(outboundCost) /\ OptimalFlows) =>
        Total(outbound_flow) <= SumSeq(demand)

\* C6: an input with a negative cost or demand entry ends in InvalidValue
\* before any model is built and before the solver is invoked.  Stated for
\* tables whose dimensions agree and on which every lookup of the builder
\* lands inside its frame, so that nothing but the negative entry is wrong.
C6_InvalidValue ==
    (HasNegativeEntry /\ DimensionsAgree /\ LookupsInFrame /\ pc # "called") =>
        /\ pc = "raised" /\ error = "InvalidValue"
        /\ ~ModelBuilt /\ ~SolverInvoked

\* C7: flows are extracted and reported only when the status is Optimal; an
\* Infeasible, Unbounded or NotSolved outcome carries its status and no flow
\* table, and asking for its flows ends in ExtractionError.
C7_OnlyOptimalExtracts ==
    (DimensionsAgree /\ SolverInvoked /\ model.status # "Optimal") =>
        /\ ~Extracted
        /\ pc # "solved" => pc = "raised" /\ error = "ExtractionError"

\* C7, the part that holds: once the solver has set the status it never changes.
C7_StatusAbsorbing == [][SolverInvoked => model'.status = model.status]_vars

\* C9: tables whose DC counts or store counts disagree end in
\* DimensionMismatch and no model is built from them, so the counts a model
\* is built with equal the dimensions of the tables.  Stated for non-negative
\* tables on which every lookup of the builder lands inside its frame, so
\* that nothing but the dimensions is wrong.
C9_DimensionMismatch ==
    (~DimensionsAgree /\ ~HasNegativeEntry /\ LookupsInFrame /\ pc # "called") =>
        /\ pc = "raised" /\ error = "DimensionMismatch"
        /\ ~ModelBuilt

\* C8 as stated: for a valid network whose demands are all 0 the outcome is
\* Optimal, every flow is 0 and the objective is 0, whatever the costs.
C8_AllZero ==
    (ValidNetwork /\ SumSeq(demand) = 0 /\ SolverInvoked) =>
        /\ model.status = "Optimal"
        /\ Extracted => AllZero(inbound_flow) /\ AllZero(outbound_flow)
        /\ pc = "displayed" => reported.cost = 0

\* no plant -> DC -> store route is free of charge
NoFreeRoute ==
    \A p \in 1..n_plants : \A d \in 1..n_dcs : \A s \in 1..Len(demand) :
        inboundCost[p][d] + outboundCost[d][s] > 0

\* C8 amended: for a valid network whose demands are all 0 the outcome is
\* Optimal and the objective is 0; every flow is 0 when no route is free of
\* charge (in particular when every cost is strictly positive).
C8_ZeroCost ==
    (ValidNetwork /\ SumSeq(demand) = 0 /\ SolverInvoked) =>
        /\ model.status = "Optimal"
        /\ (Extracted /\ NoFreeRoute) =>
               AllZero(inbound_flow) /\ AllZero(outbound_flow)
        /\ pc = "displayed" => reported.cost = 0

C8_Witness ==
    /\ ValidNetwork /\ SumSeq(demand) = 0 /\ pc = "displayed"
    /\ NoFreeRoute /\ n_dcs = 2
    /\ \E p \in 1..n_plants : \E d \in 1..n_dcs : inboundCost[p][d] = 0
    /\ AllZero(outbound_flow) /\ reported.cost = 0

\* C10: for a valid network the solve status is never Infeasible and never
\* Unbounded.
C10_AlwaysOptimal ==
    (ValidNetwork /\ SolverInvoked) => model.status = "Optimal"

C10_Witness ==
    /\ ValidNetwork /\ pc = "solved" /\ model.status = "Optimal"
    /\ n_plants = 2 /\ n_dcs = 2
    /\ demand[1] > 0 /\ \E p \in 1..2 : \E d \in 1..2 : inboundCost[p][d] = 0

====
